---- MODULE Spec2Model ----
(***************************************************************************)
(* web3/utils/filters.py: the Filter polling state machine                 *)
(* (Filter, LogFilter, PastLogFilter, ShhFilter) with one caller thread    *)
(* and the background thread that Filter.start() spawns.  The two threads  *)
(* share running, stopped and callbacks without any lock, so every         *)
(* statement that reads or writes a shared field is a step of its own.     *)
(***************************************************************************)
EXTENDS Integers, Sequences, FiniteSets, TLC

\* ---------------------------------------------------------------- bounds
MaxOps == 2      \* caller operations that get past their guard
MaxPolls == 2    \* fetches the background thread may issue
MaxBatch == 2    \* entries one fetch returns
MaxTuples == 2   \* tuples of a data filter set
MaxSlots == 2    \* slots of a data filter tuple
MaxTopics == 2   \* elements of a topic list
MaxAddresses == 2  \* elements of an address list

\* ------------------------------------------------------------ input sets
None == "None"
Words == {"aa", "bb"}                      \* 32-byte segments of a payload
Variants == {"Filter", "LogFilter", "PastLogFilter", "ShhFilter"}
LogVariants == {"LogFilter", "PastLogFilter"}
CallbackArgs == {<<"c1">>, <<"c1", "c2">>}
\* an entry is the mapping the node returns; only its data field is read
Entries == {[data |-> <<w>>] : w \in Words}
RECURSIVE SeqsUpTo(_, _)
SeqsUpTo(S, n) ==
    IF n = 0 THEN {<<>>}
    ELSE LET shorter == SeqsUpTo(S, n - 1)
         IN  shorter \cup {Append(s, x) : s \in {t \in shorter : Len(t) = n - 1}, x \in S}
Batches == SeqsUpTo(Entries, MaxBatch)
\* data filter sets: a slot is the wildcard None or an exact 32-byte value
Slots == Words \cup {None}
DataFilterTuples == SeqsUpTo(Slots, MaxSlots)
DataFilterSets == SeqsUpTo(DataFilterTuples, MaxTuples)
\* payloads of entry['data'], up to one segment longer than any tuple
Payloads == SeqsUpTo(Words, MaxSlots + 1)

VARIABLES
    variant,        \* the class of the filter object
    data_filter_set,       \* LogFilter.data_filter_set
    data_filter_set_regex, \* LogFilter.data_filter_set_regex
    log_entry_formatter,   \* LogFilter.log_entry_formatter given (TRUE) or None (FALSE)
    running,        \* Filter.running (None and False are both FALSE)
    stopped,        \* Filter.stopped
    callbacks,      \* Filter.callbacks
    tpc,            \* position of the background thread in _run
    changes,        \* the batch the background thread is dispatching
    ei, ci,         \* indexes of the two for-loops of _run
    cpc,            \* position of the caller thread
    ret,            \* outcome of the caller's last finished operation
    calls,          \* history: callback invocations of the batch under dispatch, in order
    rcalls,         \* history: how often each call on web3.eth / web3.shh was made
    nops,           \* caller operations that got past their guard
    nstarts,        \* history: calls of self.start()
    nstops,         \* history: stop_watching calls that have returned
    kwargs,         \* arguments of a construct_event_filter_params call
    filter_params   \* the dict construct_event_filter_params returns

vars == <<variant, data_filter_set, data_filter_set_regex, log_entry_formatter, running, stopped,
          callbacks, tpc, changes, ei, ci, cpc, ret, calls, rcalls, nops,
          nstarts, nstops, kwargs, filter_params>>
\* what no method of a filter object assigns
config == <<variant, data_filter_set, data_filter_set_regex, log_entry_formatter,
            kwargs, filter_params>>
taskvars == <<tpc, changes, ei, ci>>

\* ------------------------------------------------------ DataMatcher hooks
\* one alternative of the pattern, matched from the start of the payload
TupleMatchesPrefix(data_filter, payload) ==
    /\ Len(payload) >= Len(data_filter)
    /\ \A i \in 1..Len(data_filter) :
          data_filter[i] = None \/ data_filter[i] = payload[i]

\* the value of data_filter_set: the class attribute None, or the sequence
\* of tuples passed as data_filter_set=...
NoDataFilterSet == [given |-> FALSE, tuples |-> <<>>]
DataFilterSet(tuples) == [given |-> TRUE, tuples |-> tuples]

\* the value of data_filter_set_regex: no pattern object (Python None) ...
NoRegex == [compiled |-> FALSE, alternatives |-> <<>>]

\* ... or re.compile('^' + '|'.join(alternatives) + '$'), one alternative
\* '0x' + slots per tuple
construct_data_filter_regex(tuples) ==
    [compiled |-> TRUE, alternatives |-> tuples]

\* regex.match(payload): '|' binds weakest, so '$' belongs to the last
\* alternative only, and match() anchors every alternative at the start.
regex_match(regex, payload) ==
    \E k \in 1..Len(regex.alternatives) :
        /\ TupleMatchesPrefix(regex.alternatives[k], payload)
        /\ (k = Len(regex.alternatives) => Len(payload) = Len(regex.alternatives[k]))

\* set_data_filters compiling whatever it is given
set_data_filters_always(tuples) == construct_data_filter_regex(tuples)

\* the regex set_data_filters leaves in data_filter_set_regex;
\* any(data_filter_set): some tuple is non-empty
set_data_filters(tuples) ==
    IF \E k \in 1..Len(tuples) : Len(tuples[k]) > 0
    THEN construct_data_filter_regex(tuples)
    ELSE NoRegex

\* LogFilter.__init__: set_data_filters runs only if the keyword was passed
LogFilterInit(kwarg) ==
    /\ data_filter_set = kwarg
    /\ data_filter_set_regex =
           IF kwarg.given THEN set_data_filters(kwarg.tuples) ELSE NoRegex

is_valid_entry(entry) ==
    IF variant \in LogVariants /\ data_filter_set_regex.compiled
    THEN regex_match(data_filter_set_regex, entry.data)
    ELSE TRUE

\* the injected formatter is modelled as tagging the entry
format_entry(entry) ==
    IF variant \in LogVariants /\ log_entry_formatter
    THEN [formatted |-> entry]
    ELSE entry

_filter_valid_entries(entries) == SelectSeq(entries, is_valid_entry)

_format_log_entries(log_entries) ==
    [i \in 1..Len(log_entries) |-> format_entry(log_entries[i])]

\* the namespace the poll loop and stop_watching of the variant talk to
Namespace == IF variant = "ShhFilter" THEN "shh" ELSE "eth"

RemoteCalls == [ns : {"eth", "shh"},
                op : {"getFilterChanges", "getFilterLogs", "uninstallFilter"},
                by : {"task", "caller"}]
RemoteCall(ns, op, by) == [ns |-> ns, op |-> op, by |-> by]
\* the history with one more call of the kind c
Called(c) == [rcalls EXCEPT ![c] = @ + 1]
\* fetches the background thread has issued
TaskFetches ==
    rcalls[RemoteCall("eth", "getFilterChanges", "task")]
    + rcalls[RemoteCall("shh", "getFilterChanges", "task")]
    + rcalls[RemoteCall("eth", "getFilterLogs", "task")]
    + rcalls[RemoteCall("shh", "getFilterLogs", "task")]

NoRet == [op |-> "none", err |-> "none", value |-> <<>>]
Ret(op, err, value) == [op |-> op, err |-> err, value |-> value]

\* ---------------------------------------------------------- Python values
\* the values construct_event_filter_params is called with: None, strings,
\* integers, lists and tuples (items are values again)
PyNone == [kind |-> "None", atom |-> "", num |-> 0, items |-> <<>>]
PyStr(s) == [kind |-> "str", atom |-> s, num |-> 0, items |-> <<>>]
PyInt(n) == [kind |-> "int", atom |-> "", num |-> n, items |-> <<>>]
PyList(items) == [kind |-> "list", atom |-> "", num |-> 0, items |-> items]
PyTuple(items) == [kind |-> "tuple", atom |-> "", num |-> 0, items |-> items]
\* bool(v), as `if v` and `v and w` evaluate it
Truthy(v) ==
    CASE v.kind = "None" -> FALSE
      [] v.kind = "str" -> v.atom # ""
      [] v.kind = "int" -> v.num # 0
      [] OTHER -> Len(v.items) > 0
is_list_like(v) == v.kind \in {"list", "tuple"}
is_string(v) == v.kind = "str"
\* a dict, as a function on its keys
EmptyDict == [k \in {} |-> PyNone]
DictSet(d, key, value) ==
    [k \in DOMAIN d \cup {key} |-> IF k = key THEN value ELSE d[k]]
\* no call of the function has been made: no argument is bound
NoKwargs == [name \in {} |-> PyNone]

Init ==
    /\ variant \in Variants
    /\ \E given \in BOOLEAN :
          /\ LogFilterInit(IF variant \in LogVariants /\ given
                           THEN DataFilterSet(<<<<"aa">>>>) ELSE NoDataFilterSet)
          /\ log_entry_formatter = (variant \in LogVariants /\ given)
    /\ running = FALSE
    /\ stopped = FALSE
    /\ callbacks = <<>>
    /\ tpc = "new"
    /\ changes = <<>>
    /\ ei = 1
    /\ ci = 1
    /\ cpc = "idle"
    /\ ret = NoRet
    /\ calls = <<>>
    /\ rcalls = [c \in RemoteCalls |-> 0]
    /\ nops = 0
    /\ nstarts = 0
    /\ nstops = 0
    /\ kwargs = NoKwargs
    /\ filter_params = EmptyDict

\* ------------------------------------------------ the background thread
\* _run, first statement: the restart guard
run_check_stopped ==
    /\ tpc = "start"
    /\ tpc' = IF stopped THEN "refused" ELSE "set_running"
    /\ UNCHANGED <<config, running, stopped, callbacks, changes, ei, ci,
                   cpc, ret, calls, rcalls, nops, nstarts, nstops>>

\* _run: self.running = True
run_set_running ==
    /\ tpc = "set_running"
    /\ running' = TRUE
    /\ tpc' = IF variant = "PastLogFilter" THEN "fetch" ELSE "loop_top"
    /\ UNCHANGED <<config, stopped, callbacks, changes, ei, ci,
                   cpc, ret, calls, rcalls, nops, nstarts, nstops>>

\* _run: while self.running
run_loop_top ==
    /\ tpc = "loop_top"
    /\ tpc' = IF running THEN "fetch" ELSE "done"
    /\ UNCHANGED <<config, running, stopped, callbacks, changes, ei, ci,
                   cpc, ret, calls, rcalls, nops, nstarts, nstops>>

\* the fetch of the variant's _run
TaskFetchOp == IF variant = "PastLogFilter" THEN "getFilterLogs" ELSE "getFilterChanges"

\* _run: changes = self.web3.<ns>.getFilterChanges(self.filter_id), or
\* previous_logs = self.web3.eth.getFilterLogs(self.filter_id); the call
\* returns a batch or raises, and an empty batch skips the dispatch
run_fetch ==
    /\ tpc = "fetch"
    /\ TaskFetches < MaxPolls
    /\ \/ \E batch \in Batches :
             /\ rcalls' = Called(RemoteCall(Namespace, TaskFetchOp, "task"))
             /\ changes' = batch
             /\ ei' = 1
             /\ ci' = 1
             /\ calls' = <<>>
             /\ tpc' = IF batch # <<>> THEN "dispatch"
                       ELSE IF variant = "PastLogFilter" THEN "clear_running" ELSE "sleep"
       \/ /\ rcalls' = Called(RemoteCall(Namespace, TaskFetchOp, "task"))
          /\ tpc' = "dead"
          /\ UNCHANGED <<changes, ei, ci, calls>>
    /\ UNCHANGED <<config, running, stopped, callbacks, cpc, ret, nops, nstarts, nstops>>

\* run_dispatch with the loops exchanged: callbacks outside, entries inside
run_dispatch_callback_major ==
    /\ tpc = "dispatch"
    /\ IF ci > Len(callbacks)
       THEN /\ tpc' = IF variant = "PastLogFilter" THEN "clear_running" ELSE "sleep"
            /\ changes' = <<>>
            /\ ei' = 1
            /\ ci' = 1
            /\ calls' = <<>>
       ELSE IF ei > Len(changes)
       THEN /\ ci' = ci + 1
            /\ ei' = 1
            /\ UNCHANGED <<tpc, calls, changes>>
       ELSE /\ calls' = IF is_valid_entry(changes[ei])
                        THEN Append(calls, [callback_fn |-> callbacks[ci],
                                            arg |-> format_entry(changes[ei]),
                                            batch |-> TaskFetches,
                                            entry |-> ei, slot |-> ci])
                        ELSE calls
            /\ ei' = ei + 1
            /\ UNCHANGED <<tpc, ci, changes>>
    /\ UNCHANGED <<config, running, stopped, callbacks,
                   cpc, ret, rcalls, nops, nstarts, nstops>>

\* run_dispatch without the is_valid_entry test
run_dispatch_unfiltered ==
    /\ tpc = "dispatch"
    /\ IF ei > Len(changes)
       THEN /\ tpc' = IF variant = "PastLogFilter" THEN "clear_running" ELSE "sleep"
            /\ changes' = <<>>
            /\ ei' = 1
            /\ calls' = <<>>
            /\ UNCHANGED ci
       ELSE IF ci > Len(callbacks)
       THEN /\ ei' = ei + 1
            /\ ci' = 1
            /\ UNCHANGED <<tpc, calls, changes>>
       ELSE /\ calls' = Append(calls, [callback_fn |-> callbacks[ci],
                                       arg |-> format_entry(changes[ei]),
                                       batch |-> TaskFetches,
                                       entry |-> ei, slot |-> ci])
            /\ \/ /\ ci' = ci + 1
                  /\ UNCHANGED <<tpc, ei, changes>>
               \/ /\ tpc' = "dead"
                  /\ UNCHANGED <<ei, ci, changes>>
    /\ UNCHANGED <<config, running, stopped, callbacks,
                   cpc, ret, rcalls, nops, nstarts, nstops>>

\* _run: one step of  for entry in changes: for callback_fn in self.callbacks:
\* if self.is_valid_entry(entry): callback_fn(self.format_entry(entry)).
\* Both loops index the live list; the callback returns or raises.
run_dispatch ==
    /\ tpc = "dispatch"
    /\ IF ei > Len(changes)
       THEN /\ tpc' = IF variant = "PastLogFilter" THEN "clear_running" ELSE "sleep"
            /\ changes' = <<>>
            /\ ei' = 1
            /\ calls' = <<>>
            /\ UNCHANGED ci
       ELSE IF ci > Len(callbacks)
       THEN /\ ei' = ei + 1
            /\ ci' = 1
            /\ UNCHANGED <<tpc, calls, changes>>
       ELSE IF is_valid_entry(changes[ei])
       THEN /\ calls' = Append(calls, [callback_fn |-> callbacks[ci],
                                       arg |-> format_entry(changes[ei]),
                                       batch |-> TaskFetches,
                                       entry |-> ei, slot |-> ci])
            /\ \/ /\ ci' = ci + 1
                  /\ UNCHANGED <<tpc, ei, changes>>
               \/ /\ tpc' = "dead"
                  /\ UNCHANGED <<ei, ci, changes>>
       ELSE /\ ci' = ci + 1
            /\ UNCHANGED <<tpc, ei, calls, changes>>
    /\ UNCHANGED <<config, running, stopped, callbacks,
                   cpc, ret, rcalls, nops, nstarts, nstops>>

\* _run: sleep(random.random()) or sleep(self.poll_interval)
run_sleep ==
    /\ tpc = "sleep"
    /\ tpc' = "loop_top"
    /\ UNCHANGED <<config, running, stopped, callbacks, changes, ei, ci,
                   cpc, ret, calls, rcalls, nops, nstarts, nstops>>

\* run_clear_running without the assignment
run_clear_running_kept ==
    /\ tpc = "clear_running"
    /\ tpc' = "done"
    /\ UNCHANGED <<config, running, stopped, callbacks, changes, ei, ci,
                   cpc, ret, calls, rcalls, nops, nstarts, nstops>>

\* PastLogFilter._run: self.running = False, and the thread ends
run_clear_running ==
    /\ tpc = "clear_running"
    /\ running' = FALSE
    /\ tpc' = "done"
    /\ UNCHANGED <<config, stopped, callbacks, changes, ei, ci,
                   cpc, ret, calls, rcalls, nops, nstarts, nstops>>

_run ==
    \/ run_check_stopped
    \/ run_set_running
    \/ run_loop_top
    \/ run_fetch
    \/ run_dispatch
    \/ run_sleep
    \/ run_clear_running

\* ------------------------------------------------------ the caller thread
\* GreenletThread.start(): the object is one thread, which runs _run once;
\* start() on an object already started spawns nothing
start ==
    /\ nstarts' = nstarts + 1
    /\ tpc' = IF tpc = "new" THEN "start" ELSE tpc

\* watch_extend without the stopped guard
watch_extend_unguarded(new_callbacks) ==
    /\ cpc = "idle"
    /\ nops < MaxOps
    /\ nops' = nops + 1
    /\ callbacks' = callbacks \o new_callbacks
    /\ cpc' = "watch_start"
    /\ UNCHANGED <<config, running, stopped, taskvars, ret, calls, rcalls, nstarts, nstops>>

\* watch: the stopped guard, then self.callbacks.extend(callbacks)
watch_extend(new_callbacks) ==
    /\ cpc = "idle"
    /\ IF stopped
       THEN /\ ret' = Ret("watch", "ValueError", <<>>)
            /\ UNCHANGED <<callbacks, cpc, nops>>
       ELSE /\ nops < MaxOps
            /\ nops' = nops + 1
            /\ callbacks' = callbacks \o new_callbacks
            /\ cpc' = "watch_start"
            /\ UNCHANGED ret
    /\ UNCHANGED <<config, running, stopped, taskvars, calls, rcalls, nstarts, nstops>>

\* watch_start calling self.start() whatever self.running is
watch_start_always ==
    /\ cpc = "watch_start"
    /\ start
    /\ ret' = Ret("watch", "none", <<>>)
    /\ cpc' = "idle"
    /\ UNCHANGED <<config, running, stopped, callbacks, changes, ei, ci,
                   calls, rcalls, nops, nstops>>

\* watch: if not self.running: self.start(); then sleep(0) and return
watch_start ==
    /\ cpc = "watch_start"
    /\ IF ~running
       THEN start
       ELSE UNCHANGED <<tpc, nstarts>>
    /\ ret' = Ret("watch", "none", <<>>)
    /\ cpc' = "idle"
    /\ UNCHANGED <<config, running, stopped, callbacks, changes, ei, ci,
                   calls, rcalls, nops, nstops>>

watch ==
    \/ \E new_callbacks \in CallbackArgs : watch_extend(new_callbacks)
    \/ watch_start

\* stop_watching: self.running = False
stop_clear_running ==
    /\ cpc = "idle"
    /\ nops < MaxOps
    /\ nops' = nops + 1
    /\ running' = FALSE
    /\ cpc' = "stop_set_stopped"
    /\ UNCHANGED <<config, stopped, callbacks, taskvars, ret, calls, rcalls,
                   nstarts, nstops>>

\* stop_watching: self.stopped = True
stop_set_stopped ==
    /\ cpc = "stop_set_stopped"
    /\ stopped' = TRUE
    /\ cpc' = "stop_uninstall"
    /\ UNCHANGED <<config, running, callbacks, taskvars, ret, calls, rcalls,
                   nops, nstarts, nstops>>

\* stop_uninstall without the uninstallFilter call
stop_uninstall_skipped ==
    /\ cpc = "stop_uninstall"
    /\ cpc' = "stop_join"
    /\ UNCHANGED <<config, running, stopped, callbacks, taskvars, ret, calls, rcalls,
                   nops, nstarts, nstops>>

\* stop_watching: self.web3.eth.uninstallFilter(self.filter_id), and
\* self.web3.shh.uninstallFilter(self.filter_id) in ShhFilter
stop_uninstall ==
    /\ cpc = "stop_uninstall"
    /\ rcalls' = Called(RemoteCall(Namespace, "uninstallFilter", "caller"))
    /\ cpc' = "stop_join"
    /\ UNCHANGED <<config, running, stopped, callbacks, taskvars, ret, calls,
                   nops, nstarts, nstops>>

\* stop_join with a join that ends the thread it waits for
stop_join_cancelling ==
    /\ cpc = "stop_join"
    /\ ret' = Ret("stop_watching", "none", <<>>)
    /\ nstops' = nstops + 1
    /\ cpc' = "idle"
    /\ tpc' = IF tpc \in {"new", "refused", "done", "dead"} THEN tpc ELSE "done"
    /\ UNCHANGED <<config, running, stopped, callbacks, changes, ei, ci, calls, rcalls,
                   nops, nstarts>>

\* stop_watching: self.join(timeout) waits and returns; it cancels nothing
stop_join ==
    /\ cpc = "stop_join"
    /\ ret' = Ret("stop_watching", "none", <<>>)
    /\ nstops' = nstops + 1
    /\ cpc' = "idle"
    /\ UNCHANGED <<config, running, stopped, callbacks, taskvars, calls, rcalls,
                   nops, nstarts>>

stop_watching ==
    \/ stop_clear_running
    \/ stop_set_stopped
    \/ stop_uninstall
    \/ stop_join

\* get_new_entries / get_all_entries, first statement:
\* self._ensure_not_running(name).  Only LogFilter defines that method, so
\* the attribute lookup fails on every other class.
_ensure_not_running(method_name) ==
    /\ cpc = "idle"
    /\ IF variant \notin LogVariants
       THEN /\ ret' = Ret(method_name, "AttributeError", <<>>)
            /\ UNCHANGED <<cpc, nops>>
       ELSE IF running
       THEN /\ ret' = Ret(method_name, "ValueError", <<>>)
            /\ UNCHANGED <<cpc, nops>>
       ELSE /\ nops < MaxOps
            /\ nops' = nops + 1
            /\ cpc' = method_name
            /\ UNCHANGED ret
    /\ UNCHANGED <<config, running, stopped, callbacks, taskvars, calls, rcalls,
                   nstarts, nstops>>

\* the one-shot fetch on web3.eth, filtered and formatted
sync_fetch(method_name, remote_op) ==
    /\ cpc = method_name
    /\ \E batch \in Batches :
          /\ rcalls' = Called(RemoteCall("eth", remote_op, "caller"))
          /\ ret' = Ret(method_name, "none",
                        _format_log_entries(_filter_valid_entries(batch)))
    /\ cpc' = "idle"
    /\ UNCHANGED <<config, running, stopped, callbacks, taskvars, calls,
                   nops, nstarts, nstops>>

get_new_entries ==
    \/ _ensure_not_running("get_new_entries")
    \/ sync_fetch("get_new_entries", "getFilterChanges")

get_all_entries ==
    \/ _ensure_not_running("get_all_entries")
    \/ sync_fetch("get_all_entries", "getFilterLogs")

Next ==
    \/ _run
    \/ watch
    \/ stop_watching
    \/ get_new_entries
    \/ get_all_entries

Spec == Init /\ [][Next]_vars

\* ------------------------------------------- the matcher as a function
\* a filter object built with any data_filter_set keyword, or without one
MatchInit ==
    /\ variant \in {"Filter", "LogFilter"}
    /\ \E kwarg \in {NoDataFilterSet} \cup {DataFilterSet(t) : t \in DataFilterSets} :
          LogFilterInit(IF variant \in LogVariants THEN kwarg ELSE NoDataFilterSet)
    /\ log_entry_formatter = FALSE
    /\ running = FALSE
    /\ stopped = FALSE
    /\ callbacks = <<>>
    /\ tpc = "new"
    /\ changes = <<>>
    /\ ei = 1
    /\ ci = 1
    /\ cpc = "idle"
    /\ ret = NoRet
    /\ calls = <<>>
    /\ rcalls = [c \in RemoteCalls |-> 0]
    /\ nops = 0
    /\ nstarts = 0
    /\ nstops = 0
    /\ kwargs = NoKwargs
    /\ filter_params = EmptyDict

\* self.is_valid_entry(entry) on one entry: changes holds the entry and
\* ret the boolean returned
call_is_valid_entry ==
    /\ ret = NoRet
    /\ \E payload \in Payloads :
          /\ changes' = <<[data |-> payload]>>
          /\ ret' = Ret("is_valid_entry", "none", <<is_valid_entry([data |-> payload])>>)
    /\ UNCHANGED <<config, running, stopped, callbacks, tpc, ei, ci, cpc,
                   calls, rcalls, nops, nstarts, nstops>>

MatchNext == call_is_valid_entry

MatchSpec == MatchInit /\ [][MatchNext]_vars

\* ------------------------------------- construct_event_filter_params
\* inputs of a call.  The encoder (construct_event_topic_set) is a
\* collaborator: its result is an input, a list whose elements are topics,
\* None or nested alternative lists
TopicAtoms == {PyNone, PyStr("T1")}
TopicLists == {PyList(s) : s \in SeqsUpTo(TopicAtoms, MaxTopics)}
ExplicitTopics == {PyNone, PyStr("T1")} \cup TopicLists
EncodedTopicSets == SeqsUpTo(TopicAtoms \cup {PyList(<<PyStr("T1"), PyStr("T2")>>)}, MaxTopics)
AddressSeqs == SeqsUpTo({PyStr("0xA")}, MaxAddresses)
AddressArgs ==
    {PyNone, PyStr(""), PyStr("0xA"), PyInt(0), PyInt(42)}
        \cup {PyList(s) : s \in AddressSeqs} \cup {PyTuple(s) : s \in AddressSeqs}
ContractAddressArgs == {PyNone, PyStr("0xB")}
BlockArgs == {PyNone, PyInt(0), PyInt(1)}

\* what a statement of the function leaves: the dict so far, or an exception
Returned(d) == [err |-> "none", filter_params |-> d]
Raised(err) == [err |-> err, filter_params |-> EmptyDict]

\* lines 29-32: the combined topic sequence
combined_topic_set(topics, encoded) ==
    IF topics = PyNone THEN encoded ELSE <<topics>> \o encoded

collapse_topics_any_single(topic_set) ==
    IF Len(topic_set) = 1 THEN topic_set[1] ELSE PyList(topic_set)

\* lines 34-37: filter_params['topics']
collapse_topics(topic_set) ==
    IF Len(topic_set) = 1 /\ is_list_like(topic_set[1])
    THEN topic_set[1]
    ELSE PyList(topic_set)

\* lines 39-51: filter_params['address'].  `address + [contract_address]`
\* builds a new list from a list and raises TypeError on a tuple
merge_address(d, address, contract_address) ==
    IF Truthy(address) /\ Truthy(contract_address)
    THEN IF is_list_like(address)
         THEN IF address.kind = "list"
              THEN Returned(DictSet(d, "address", PyList(address.items \o <<contract_address>>)))
              ELSE Raised("TypeError")
         ELSE IF is_string(address)
         THEN Returned(DictSet(d, "address", PyList(<<address, contract_address>>)))
         ELSE Raised("ValueError")
    ELSE IF Truthy(address) THEN Returned(DictSet(d, "address", address))
    ELSE IF Truthy(contract_address) THEN Returned(DictSet(d, "address", contract_address))
    ELSE Returned(d)

set_block_if_truthy(d, key, value) ==
    IF Truthy(value) THEN DictSet(d, key, value) ELSE d

\* lines 53-57: filter_params['fromBlock'], filter_params['toBlock']
set_block(d, key, value) ==
    IF value # PyNone THEN DictSet(d, key, value) ELSE d

\* the function, statement by statement
construct_event_filter_params(kw) ==
    LET topic_set == combined_topic_set(kw.topics, kw.topic_set)
        with_topics == DictSet(EmptyDict, "topics", collapse_topics(topic_set))
        merged == merge_address(with_topics, kw.address, kw.contract_address)
    IN  IF merged.err # "none" THEN merged
        ELSE Returned(set_block(set_block(merged.filter_params, "fromBlock", kw.fromBlock),
                                "toBlock", kw.toBlock))

BuildInit ==
    /\ kwargs \in [topics : ExplicitTopics, address : AddressArgs,
                   contract_address : ContractAddressArgs,
                   fromBlock : BlockArgs, toBlock : BlockArgs,
                   topic_set : EncodedTopicSets, data_filters_set : {<<<<"aa">>>>}]
    /\ filter_params = EmptyDict
    /\ variant = "Filter"
    /\ LogFilterInit(NoDataFilterSet)
    /\ log_entry_formatter = FALSE
    /\ running = FALSE
    /\ stopped = FALSE
    /\ callbacks = <<>>
    /\ tpc = "new"
    /\ changes = <<>>
    /\ ei = 1
    /\ ci = 1
    /\ cpc = "idle"
    /\ ret = NoRet
    /\ calls = <<>>
    /\ rcalls = [c \in RemoteCalls |-> 0]
    /\ nops = 0
    /\ nstarts = 0
    /\ nstops = 0

\* one call: ret holds the exception raised, or the data filter set
\* returned next to filter_params; the arguments are only read
call_construct_event_filter_params ==
    /\ ret = NoRet
    /\ LET out == construct_event_filter_params(kwargs)
       IN  /\ filter_params' = out.filter_params
           /\ ret' = Ret("construct_event_filter_params", out.err,
                         IF out.err = "none" THEN kwargs.data_filters_set ELSE <<>>)
    /\ kwargs' = kwargs
    /\ UNCHANGED <<variant, data_filter_set, data_filter_set_regex, log_entry_formatter,
                   running, stopped, callbacks, tpc, changes, ei, ci, cpc,
                   calls, rcalls, nops, nstarts, nstops>>

BuildNext == call_construct_event_filter_params

BuildSpec == BuildInit /\ [][BuildNext]_vars

\* ------------------------------------------------------------ properties
GetMethods == {"get_new_entries", "get_all_entries"}
FetchOpOf(method_name) ==
    IF method_name = "get_new_entries" THEN "getFilterChanges" ELSE "getFilterLogs"
\* uninstallFilter calls made so far, on either namespace and by either thread
Releases ==
    rcalls[RemoteCall("eth", "uninstallFilter", "caller")]
    + rcalls[RemoteCall("shh", "uninstallFilter", "caller")]
    + rcalls[RemoteCall("eth", "uninstallFilter", "task")]
    + rcalls[RemoteCall("shh", "uninstallFilter", "task")]
InStop == cpc \in {"stop_set_stopped", "stop_uninstall", "stop_join"}

\* C1: a watch() call made once stop_watching has set stopped raises
\* ValueError, and that call leaves the callback registry as it was, starts
\* no thread and returns straight to the caller.
C1_WatchAfterStopFails ==
    [][\A new_callbacks \in CallbackArgs :
          (stopped /\ watch_extend(new_callbacks))
              => /\ ret'.op = "watch"
                 /\ ret'.err = "ValueError"
                 /\ cpc' = "idle"
                 /\ UNCHANGED <<callbacks, tpc, nstarts, running, stopped>>]_vars

\* C1 witness: a filter that was watched and then stopped has just refused
\* a further watch().
C1_Witness ==
    /\ stopped
    /\ ret.op = "watch"
    /\ ret.err = "ValueError"
    /\ Len(callbacks) > 0
    /\ nstarts = 1

\* C2: on every variant a get_new_entries()/get_all_entries() call made
\* while running is set raises ValueError and issues no fetch, and no
\* synchronous fetch is issued while running is set.
C2_SyncReadWhileRunningIsInvalidState ==
    [][\A m \in GetMethods :
          /\ (running /\ _ensure_not_running(m))
                 => (ret'.err = "ValueError" /\ rcalls' = rcalls /\ cpc' = "idle")
          /\ sync_fetch(m, FetchOpOf(m)) => ~running]_vars

\* C3: once stop_watching has left the filter Stopped (stopped set, running
\* clear) no step makes it Running or Idle again, and running is only ever
\* set on a filter that is not stopped.
C3_StoppedIsTerminal ==
    [][/\ (stopped /\ ~running) => (stopped' /\ ~running')
       /\ (~running /\ running') => ~stopped]_vars

\* C4 (as claimed): once a stop_watching call has returned, uninstallFilter
\* has been called exactly once, whatever is called later.
C4_ReleasedExactlyOnce == nstops >= 1 => Releases = 1

\* C4 (amended): uninstallFilter is called exactly once by each
\* stop_watching call and by nothing else: the number of calls equals the
\* number of stop_watching calls that have reached their uninstall step.
C4_ReleasedOncePerStop ==
    Releases = nstops + (IF cpc = "stop_join" THEN 1 ELSE 0)

\* C4 witness: two stop_watching calls have returned, with two releases.
C4_Witness == nstops = 2 /\ Releases = 2 /\ cpc = "idle"

\* C5: the invocations of the batch under dispatch are in entry order and,
\* within one entry, in registration order, every callback of entry i before
\* any callback of entry i+1; each invocation passes the formatted entry of
\* its position to the callback registered at its slot, and belongs to the
\* batch fetched last.
C5_DispatchOrder ==
    calls # <<>> =>
    LET fetched == TaskFetches IN
    \A k \in 1..Len(calls) :
        /\ calls[k].batch = fetched
        /\ calls[k].entry \in 1..Len(changes)
        /\ calls[k].slot \in 1..Len(callbacks)
        /\ calls[k].callback_fn = callbacks[calls[k].slot]
        /\ calls[k].arg = format_entry(changes[calls[k].entry])
        /\ k > 1 =>
              \/ calls[k - 1].entry < calls[k].entry
              \/ /\ calls[k - 1].entry = calls[k].entry
                 /\ calls[k - 1].slot < calls[k].slot

\* C5 witness: entries [e1, e2] and callbacks [c1, c2] gave
\* c1(e1), c2(e1), c1(e2), c2(e2).
C5_Witness ==
    /\ callbacks = <<"c1", "c2">>
    /\ Len(calls) = 4
    /\ [k \in 1..4 |-> calls[k].callback_fn] = <<"c1", "c2", "c1", "c2">>
    /\ [k \in 1..4 |-> calls[k].arg] =
           <<[data |-> <<"aa">>], [data |-> <<"aa">>], [data |-> <<"bb">>], [data |-> <<"bb">>]>>

C7_StopObservedAtLoopTop == (stopped /\ tpc = "loop_top") => ~running

\* C8: the thread of a PastLogFilter issues at most one fetch, which is
\* getFilterLogs on web3.eth, never loops or sleeps, and when its run has
\* ended it has fetched exactly once and running is false; stopped is then
\* set only if stop_watching was called.
C8_PastOneShot ==
    variant = "PastLogFilter" =>
        /\ TaskFetches <= 1
        /\ TaskFetches = rcalls[RemoteCall("eth", "getFilterLogs", "task")]
        /\ tpc \notin {"loop_top", "sleep"}
        /\ tpc = "done" =>
              /\ TaskFetches = 1
              /\ ~running
              /\ (nstops = 0 /\ ~InStop) => ~stopped

\* C8 witness: a PastLogFilter's run has ended on a filter never stopped.
C8_Witness ==
    /\ variant = "PastLogFilter"
    /\ tpc = "done"
    /\ ~stopped
    /\ Len(callbacks) > 0
    /\ TaskFetches = 1

\* C9: on every variant a get_new_entries()/get_all_entries() call made
\* while running is not set passes its guard, and its fetch step issues
\* exactly one fetch of its kind on web3.eth, returns without error and
\* leaves running, stopped, the registry and the thread as they were.
C9_SyncReadSucceedsWhenNotRunning ==
    [][\A m \in GetMethods :
          /\ (~running /\ _ensure_not_running(m)) => (cpc' = m /\ ret' = ret)
          /\ sync_fetch(m, FetchOpOf(m))
                 => /\ ret'.op = m
                    /\ ret'.err = "none"
                    /\ rcalls' = Called(RemoteCall("eth", FetchOpOf(m), "caller"))
                    /\ UNCHANGED <<running, stopped, callbacks, taskvars>>]_vars

\* C10: a fault in a callback or in the thread's fetch ends the thread for
\* good (no further fetch, no further invocation), the faulting step leaves
\* running and stopped as they were, and while running is still set a later
\* get_new_entries()/get_all_entries() raises ValueError and a later watch()
\* starts no thread.
C10_FaultLeavesFilterInert ==
    [][/\ tpc = "dead" => (tpc' = "dead" /\ calls' = calls /\ TaskFetches' = TaskFetches)
       /\ (tpc # "dead" /\ tpc' = "dead") => UNCHANGED <<running, stopped>>
       /\ (tpc = "dead" /\ running /\ watch_start) => UNCHANGED <<nstarts, taskvars>>
       /\ \A m \in GetMethods :
             (tpc = "dead" /\ running /\ _ensure_not_running(m))
                 => (ret'.err = "ValueError" /\ rcalls' = rcalls)]_vars

\* a tuple read as the specification reads it: its slots, concatenated,
\* are the whole payload
TupleEqualsPayload(data_filter, payload) ==
    /\ Len(payload) = Len(data_filter)
    /\ \A i \in 1..Len(data_filter) :
          data_filter[i] = None \/ data_filter[i] = payload[i]
SomeTupleNonEmpty ==
    /\ data_filter_set.given
    /\ \E k \in 1..Len(data_filter_set.tuples) : Len(data_filter_set.tuples[k]) > 0

\* C11: a compiled matcher accepts a payload exactly when some tuple of the
\* data filter set equals the whole payload slot by slot, anchored at both
\* ends.
C11_MatcherIsAnchoredOrOfAnd ==
    (ret.op = "is_valid_entry" /\ data_filter_set_regex.compiled)
        => ret.value[1] =
              (\E k \in 1..Len(data_filter_set.tuples) :
                  TupleEqualsPayload(data_filter_set.tuples[k], changes[1].data))

Built == ret.op = "construct_event_filter_params"
HasKey(d, key) == key \in DOMAIN d

\* C13: with both address and contract_address given, a sequence address
\* (also an empty one) gives address ++ [contract_address], a string gives
\* [address, contract_address] and any other shape raises ValueError; address
\* alone is used as it is, contract_address alone is used alone, and with
\* neither there is no address key
C13_AddressMerge ==
    Built =>
        LET address == kwargs.address
            contract_address == kwargs.contract_address
        IN  /\ (address # PyNone /\ contract_address # PyNone /\ is_list_like(address))
                  => /\ ret.err = "none"
                     /\ HasKey(filter_params, "address")
                     /\ filter_params["address"].kind \in {"list", "tuple"}
                     /\ filter_params["address"].items = address.items \o <<contract_address>>
            /\ (address # PyNone /\ contract_address # PyNone /\ is_string(address))
                  => /\ ret.err = "none"
                     /\ HasKey(filter_params, "address")
                     /\ filter_params["address"] = PyList(<<address, contract_address>>)
            /\ (address # PyNone /\ contract_address # PyNone
                  /\ ~is_list_like(address) /\ ~is_string(address))
                  => ret.err = "ValueError"
            /\ (address # PyNone /\ contract_address = PyNone)
                  => /\ ret.err = "none"
                     /\ HasKey(filter_params, "address")
                     /\ filter_params["address"] = address
            /\ (address = PyNone /\ contract_address # PyNone)
                  => /\ ret.err = "none"
                     /\ HasKey(filter_params, "address")
                     /\ filter_params["address"] = contract_address
            /\ (address = PyNone /\ contract_address = PyNone)
                  => ret.err = "none" /\ ~HasKey(filter_params, "address")

\* C14: the dict returned has no key outside topics, address, fromBlock and
\* toBlock, and fromBlock (toBlock) is a key exactly when the argument was
\* passed (0 included), with the value passed
C14_BlockRangeOnlyWhenGiven ==
    (Built /\ ret.err = "none") =>
        /\ DOMAIN filter_params \subseteq {"topics", "address", "fromBlock", "toBlock"}
        /\ \A key \in {"fromBlock", "toBlock"} :
              /\ HasKey(filter_params, key) <=> kwargs[key] # PyNone
              /\ HasKey(filter_params, key) => filter_params[key] = kwargs[key]

C14_Witness ==
    /\ Built /\ ret.err = "none"
    /\ kwargs.fromBlock = PyInt(0) /\ kwargs.toBlock = PyNone
    /\ HasKey(filter_params, "fromBlock") /\ filter_params["fromBlock"] = PyInt(0)
    /\ ~HasKey(filter_params, "toBlock")

\* C15: the combined topic sequence is the encoder's topic set with the
\* explicit topics, when given, as one first element; topics is the single
\* element when the combined sequence has one element and it is a list, and
\* the combined sequence in every other case
C15_TopicsCollapse ==
    (Built /\ ret.err = "none") =>
        LET combined == IF kwargs.topics = PyNone THEN kwargs.topic_set
                        ELSE <<kwargs.topics>> \o kwargs.topic_set
        IN  /\ HasKey(filter_params, "topics")
            /\ filter_params["topics"] =
                  IF Len(combined) = 1 /\ combined[1].kind \in {"list", "tuple"}
                  THEN combined[1] ELSE PyList(combined)

C15_Witness ==
    /\ Built /\ ret.err = "none"
    /\ kwargs.topics = PyList(<<PyStr("T1"), PyNone>>)
    /\ kwargs.topic_set = <<>>
    /\ filter_params["topics"] = PyList(<<PyStr("T1"), PyNone>>)

\* the invocation a step of the dispatch loop adds: its argument is
\* format_entry of an entry of the fetched batch that is_valid_entry accepts
NewCallIsOfValidEntry ==
    (calls' # calls /\ calls' # <<>>) =>
        LET c == calls'[Len(calls')]
        IN  /\ calls' = Append(calls, c)
            /\ c.entry \in 1..Len(changes)
            /\ is_valid_entry(changes[c.entry])
            /\ c.arg = format_entry(changes[c.entry])
PassedTo(history, entry, slot) ==
    \E i \in 1..Len(history) : history[i].entry = entry /\ history[i].slot = slot

\* C16 as stated: every invocation gets format_entry of a fetched entry
\* that is_valid_entry accepts, and when the dispatch of a batch ends, every
\* valid entry of the batch has been passed to every registered callback
C16_EveryValidEntryToEveryCallback ==
    [][tpc = "dispatch" =>
          /\ NewCallIsOfValidEntry
          /\ tpc' # "dispatch" =>
                \A k \in 1..Len(changes) : is_valid_entry(changes[k]) =>
                   \A slot \in 1..Len(callbacks) :
                      PassedTo(IF tpc' = "dead" THEN calls' ELSE calls, k, slot)]_vars

\* C16, amended: every invocation gets format_entry of a fetched entry that
\* is_valid_entry accepts, and when the loop moves on from a valid entry,
\* that entry has been passed to every callback registered at that moment
\* (a raising callback ends the dispatch before that)
C16_LocalFilteringOnDispatch ==
    [][tpc = "dispatch" =>
          /\ NewCallIsOfValidEntry
          /\ (ei' = ei + 1 /\ is_valid_entry(changes[ei])) =>
                \A slot \in 1..Len(callbacks) : PassedTo(calls, ei, slot)]_vars

C16_Witness ==
    /\ tpc = "dispatch"
    /\ Len(changes) = 2 /\ ~is_valid_entry(changes[1]) /\ is_valid_entry(changes[2])
    /\ Len(callbacks) = 2
    /\ ei = 2 /\ ci = 3
    /\ Len(calls) = 2
    /\ calls[1].entry = 2 /\ calls[1].slot = 1
    /\ calls[2].entry = 2 /\ calls[2].slot = 2
    /\ calls[2].arg = format_entry(changes[2])

\* C17: stop_watching can be called on a filter that was never watched and
\* on a running one; it first clears running and sets stopped, then calls
\* uninstallFilter, and only then joins the thread; the join ends no thread;
\* on a never-watched filter it returns with stopped set and the filter
\* uninstalled
C17_StopOrder ==
    [][/\ (cpc = "idle" /\ InStop') =>
             /\ ~running' /\ stopped' = stopped
             /\ rcalls' = rcalls /\ nstops' = nstops
       /\ (rcalls' # rcalls /\ Releases' # Releases) =>
             /\ Releases' = Releases + 1
             /\ stopped /\ stopped'
             /\ nstops' = nstops /\ Releases = nstops
       /\ (nstops' # nstops) =>
             /\ nstops' = nstops + 1
             /\ stopped' /\ rcalls' = rcalls /\ Releases' = nstops'
             /\ tpc' = tpc
       /\ (nstops' # nstops /\ nstarts = 0) =>
             /\ tpc' = "new" /\ ~running' /\ stopped' /\ Releases' >= 1]_vars

C17_Witness ==
    /\ nstops = 1 /\ nstarts = 0 /\ cpc = "idle"
    /\ ret.op = "stop_watching" /\ ret.err = "none"
    /\ tpc = "new" /\ stopped /\ ~running /\ Releases = 1

\* C18: the background thread makes no getFilterChanges / getFilterLogs call
\* once stop_watching has called uninstallFilter
C18_NoFetchAfterRelease ==
    [][TaskFetches' # TaskFetches => Releases = 0]_vars

IsPrefix(s, t) == Len(s) <= Len(t) /\ \A i \in 1..Len(s) : s[i] = t[i]
\* the dispatch of the fetched batch has made an invocation and has another
\* one to make
MidBatch ==
    /\ tpc = "dispatch"
    /\ calls # <<>>
    /\ \E k \in 1..Len(changes) :
          /\ is_valid_entry(changes[k])
          /\ \/ k > ei
             \/ k = ei /\ ci <= Len(callbacks)

\* C19: no step removes or reorders callbacks (stop_watching leaves the list
\* as it is), and no callback is appended between the first and the last
\* invocation of a batch
C19_RegistryStableDuringBatch ==
    [][/\ IsPrefix(callbacks, callbacks')
       /\ (callbacks' # callbacks) => ~MidBatch]_vars

\* C20: a call on web3.eth / web3.shh made for a ShhFilter goes to shh and
\* one made for any other filter to eth, and a get_new_entries /
\* get_all_entries of a ShhFilter that is not refused for running has
\* fetched from shh
C20_NamespaceBinding ==
    /\ \A c \in RemoteCalls : rcalls[c] > 0 =>
          c.ns = (IF variant = "ShhFilter" THEN "shh" ELSE "eth")
    /\ (variant = "ShhFilter" /\ ret.op \in GetMethods /\ ret.err # "ValueError") =>
          rcalls[RemoteCall("shh", FetchOpOf(ret.op), "caller")] > 0

====
